---- MODULE Spec2Model ----
(***************************************************************************)
(* The editing core of src/src/aloha.js: the event pipeline `editor`, the  *)
(* stages `associateEditable` and `setSelection` it defines itself, and    *)
(* the lifecycle entry points `aloha` (attach) and `mahalo` (detach).      *)
(* The collaborators the file only calls (Editables, Undo, Dom, Ranges,    *)
(* Fn and the seven handle stages) are modelled from their contracts.      *)
(* Execution is single threaded: the state holds one call stack, and each  *)
(* action is one step of the function on top of it.                        *)
(***************************************************************************)
EXTENDS Integers, Sequences, FiniteSets, TLC

\* Bounds of the model
MaxEditables == 2   \* Editable objects ever constructed
MaxEdits == 1       \* edits typed in one run
MaxDepth == 2       \* dispatches in progress when stages make calls of their own
MaxScopes == 3      \* scopes ever entered in one undo context
MaxItems == 19      \* items of the array an overlay is built from
MaxSelects == 1     \* times the overlay calls onSelect
MaxMarks == 2       \* cells of the overlay carrying 'focused' at once
MaxRecords == 2     \* edits recorded through the undo interface

None == "none"

\* The document: body > outer > inner
Elems == {"outer", "inner"}
Nodes == Elems \cup {"body"}

\* The nodes holding text, where a caret, a pointer or a drop can land
Positions == {"body", "inner"}

parentNode(n) ==
    CASE n = "inner" -> "outer"
      [] n = "outer" -> "body"
      [] OTHER -> None

\* Native notifications delivered by Events.setup(editor, document)
EventTypes == {"keydown", "mousedown", "mousemove", "paste", "drop"}

VARIABLES
    editables,        \* editor.editables: element -> Editable (0: no entry)
    heap,             \* the Editable objects constructed so far, by identity
    contentEditable,  \* element -> its contentEditable attribute is set
    selection,        \* the native selection (what Ranges.select wrote last)
    stack,            \* the call stack, innermost frame last
    result,           \* how the last facade call ended
    lastRan,          \* the stages the last completed dispatch ran, in order
    overlay           \* the picker overlay of the colour-picker sandbox

vars ==
    <<editables, heap, contentEditable, selection, stack, result, lastRan,
      overlay>>

----------------------------------------------------------------------------
\* Contexts (AlohaEvent)

NoContext ==
    [nativeEvent |-> None, type |-> "null", range |-> None,
     editable |-> 0, editor |-> FALSE]

\* The partial contexts a caller of editor(null, custom) supplies
CustomContexts ==
    { [nativeEvent |-> ne, type |-> "custom", range |-> r,
       editable |-> e, editor |-> FALSE] :
        ne \in {None, "keydown"},
        r \in {None, "inner"},
        e \in {0, Len(heap)} }

\* Variant: the back-reference to the editor is not set
NewContextNoEditor(nativeEvent, custom) ==
    IF custom # NoContext
    THEN custom
    ELSE [NoContext EXCEPT !.nativeEvent = nativeEvent, !.type = "native"]

\* var alohaEvent = custom || {'nativeEvent' : nativeEvent};
\* alohaEvent.editor = editor;
NewContext(nativeEvent, custom) ==
    [(IF custom # NoContext
      THEN custom
      ELSE [NoContext EXCEPT !.nativeEvent = nativeEvent, !.type = "native"])
     EXCEPT !.editor = TRUE]

----------------------------------------------------------------------------
\* Call stack

\* A frame holds the function's locals (elem, editable, ctx) and its position
\* (pc), and, for the properties below, what the call has done so far: the
\* stages it ran, what it handed to Ranges.select, how many contexts it
\* dispatched, and the state it was called in.
Frame(fn, elem, ctx, origin) ==
    [fn |-> fn, pc |-> 1, elem |-> elem, editable |-> 0, ctx |-> ctx,
     origin |-> origin, ran |-> <<>>, selected |-> None, dispatched |-> 0,
     entry |-> [editables |-> editables, heap |-> heap,
                contentEditable |-> contentEditable, selection |-> selection]]

Top == stack[Len(stack)]
Running(fn) == stack # <<>> /\ Top.fn = fn
SetTop(f) == [stack EXCEPT ![Len(stack)] = f]
Pop == SubSeq(stack, 1, Len(stack) - 1)
Idle == stack = <<>>

Result(fn, elem, error) == [fn |-> fn, elem |-> elem, error |-> error]

----------------------------------------------------------------------------
\* Undo

RECURSIVE Flatten(_)
RECURSIVE populateLoop(_, _, _)
RECURSIVE childAt(_, _, _)
RECURSIVE Recorded(_)
RECURSIVE UndoClose(_)

\* An undo context holds the open scopes, innermost last, the steps of the
\* top-level scopes that were closed (history), and the steps undo has taken
\* back (reverted). A step is the sequence of edits one undo() reverts; edits
\* are numbered in the order they were recorded. handles counts the scopes
\* entered so far: a scope's handle is its number. log keeps, for each edit,
\* the scope it was recorded in, whether that scope partitions its records,
\* and whether every scope open at the time did (alone).
UndoContext(elem) ==
    [frames |-> <<>>, history |-> <<>>, reverted |-> <<>>,
     handles |-> 0, edits |-> 0, log |-> <<>>]

Flatten(steps) ==
    IF steps = <<>> THEN <<>> ELSE Head(steps) \o Flatten(Tail(steps))

\* Variant: a scope keeps every step apart whatever its partitionRecords
CollectApart(scope, steps) == scope.steps \o steps

\* The steps of a scope once the given steps are added to it: one more step
\* each if the scope partitions its records, all in one step if not
Collect(scope, steps) ==
    IF steps = <<>> THEN scope.steps
    ELSE IF scope.partitionRecords THEN scope.steps \o steps
    ELSE <<Flatten(scope.steps \o steps)>>

\* Undo.enter(context, {meta: ..., partitionRecords: ...}); the handle
\* returned is the new value of context.handles
UndoEnter(context, meta, partitionRecords) ==
    [context EXCEPT
        !.handles = @ + 1,
        !.frames = Append(@, [handle |-> context.handles + 1, meta |-> meta,
                              partitionRecords |-> partitionRecords,
                              steps |-> <<>>])]

\* Variant: any open scope may be closed
IsInnermostAnyOpen(context, handle) ==
    \E k \in DOMAIN context.frames : context.frames[k].handle = handle

IsInnermost(context, handle) ==
    /\ context.frames # <<>>
    /\ context.frames[Len(context.frames)].handle = handle

\* exit of the innermost scope: its steps go to the scope around it, or to
\* the history when it is a top-level scope
UndoExit(context) ==
    LET n == Len(context.frames)
        scope == context.frames[n]
    IN  IF n > 1
        THEN [context EXCEPT
                !.frames = [SubSeq(@, 1, n - 1) EXCEPT
                               ![n - 1].steps =
                                   Collect(context.frames[n - 1], scope.steps)]]
        ELSE [context EXCEPT !.frames = <<>>,
                             !.history = @ \o scope.steps]

\* Undo.close(context): every open scope is closed, innermost first
UndoClose(context) ==
    IF context.frames = <<>> THEN context ELSE UndoClose(UndoExit(context))

\* record(edit) into the innermost open scope
UndoRecord(context) ==
    LET n == Len(context.frames)
        e == context.edits + 1
    IN  [context EXCEPT
            !.edits = e,
            !.frames[n].steps = Collect(context.frames[n], << <<e>> >>),
            !.log = Append(@,
                [scope |-> context.frames[n].handle,
                 partition |-> context.frames[n].partitionRecords,
                 alone |-> \A k \in 1..n : context.frames[k].partitionRecords])]

\* The edits recorded so far in the contexts of the first n Editables
Recorded(n) ==
    IF n = 0 THEN 0 ELSE heap[n].undoContext.edits + Recorded(n - 1)

CanRecord(context) ==
    /\ context.frames # <<>>
    /\ Recorded(Len(heap)) < MaxEdits

\* The steps undo() can take back, oldest first: those of the history, then
\* those already complete in an open top-level scope that partitions its
\* records
Undoable(context) ==
    context.history \o
       (IF context.frames # <<>> /\ context.frames[1].partitionRecords
        THEN context.frames[1].steps ELSE <<>>)

\* undo(): the most recent step is taken back
UndoUndo(context) ==
    LET open == context.frames # <<>> /\ context.frames[1].partitionRecords
                   /\ context.frames[1].steps # <<>>
        step == Undoable(context)[Len(Undoable(context))]
    IN  IF open
        THEN [context EXCEPT
                !.frames[1].steps = SubSeq(@, 1, Len(@) - 1),
                !.reverted = Append(@, step)]
        ELSE [context EXCEPT
                !.history = SubSeq(@, 1, Len(@) - 1),
                !.reverted = Append(@, step)]

----------------------------------------------------------------------------
\* Editables and Dom

\* Editables.Editable(elem)
Editable(elem) ==
    [elem |-> elem, isOpen |-> FALSE, overrides |-> <<"unset">>,
     settings |-> [defaultBlockNodeName |-> "unset"],
     undoContext |-> UndoContext(elem)]

\* attach fails when the element already maps to a live Editable
AlreadyAttached(elem) == editables[elem] # 0

\* Editables.fromElem(editor, elem)
fromElem(elem) == editables[elem]

\* Dom.editingHost(node): the nearest enclosing element accepting input
RECURSIVE editingHost(_)
editingHost(node) ==
    IF node \notin Elems THEN None
    ELSE IF contentEditable[node] THEN node
    ELSE editingHost(parentNode(node))

\* range.commonAncestorContainer: a range is named by the node it lies in
commonAncestorContainer(range) == range

----------------------------------------------------------------------------
\* The pipeline: editor(nativeEvent, custom)

\* Variant: associateEditable and Paste.handle change places
compArgsPasteFirst ==
    <<"setSelection", "Selections.handle", "Typing.handle", "Blocks.handle",
      "DragDrop.handle", "associateEditable", "Paste.handle", "Mouse.handle",
      "Keys.handle">>

\* The arguments of Fn.comp, as written
compArgs ==
    <<"setSelection", "Selections.handle", "Typing.handle", "Blocks.handle",
      "DragDrop.handle", "Paste.handle", "associateEditable", "Mouse.handle",
      "Keys.handle">>

\* Fn.comp(f, g, ..., h)(x) = f(g(...(h(x)))): the last argument runs first
StageAt(k) == compArgs[Len(compArgs) - k + 1]
NStages == Len(compArgs)

Collaborators ==
    {"Keys.handle", "Mouse.handle", "Paste.handle", "DragDrop.handle",
     "Blocks.handle", "Typing.handle", "Selections.handle"}

AtStage(name) ==
    /\ Running("editor")
    /\ Top.pc <= NStages
    /\ StageAt(Top.pc) = name

\* The contexts a collaborator stage may return for the context it is given.
\* A stage that does not recognise the notification returns it unchanged.
\*   Keys, Paste: classify the notification; the caret is the native selection
\*   Mouse:       classifies it; the range is where the pointer is, if anywhere
\*   DragDrop:    the range becomes the drop position
\*   Blocks:      no effect on the fields modelled
\*   Typing:      mutates the content at the range (see Types), range kept
\*   Selections:  selection policy keeps the range or withholds it
handle(stage, ctx) ==
    CASE stage = "Keys.handle" ->
           IF ctx.nativeEvent = "keydown"
           THEN {[ctx EXCEPT !.type = "key",
                             !.range = IF @ = None THEN selection ELSE @]}
           ELSE {ctx}
      [] stage = "Mouse.handle" ->
           IF ctx.nativeEvent \in {"mousedown", "mousemove"}
           THEN {[ctx EXCEPT !.type = "pointer", !.range = r] :
                    r \in Positions \cup {ctx.range}}
           ELSE {ctx}
      [] stage = "Paste.handle" ->
           IF ctx.nativeEvent = "paste"
           THEN {[ctx EXCEPT !.type = "paste",
                             !.range = IF @ = None THEN selection ELSE @]}
           ELSE {ctx}
      [] stage = "DragDrop.handle" ->
           IF ctx.nativeEvent = "drop"
           THEN {[ctx EXCEPT !.type = "drop", !.range = r] : r \in Positions}
           ELSE {ctx}
      [] stage = "Selections.handle" ->
           IF ctx.nativeEvent # None /\ ctx.range # None
           THEN {ctx, [ctx EXCEPT !.range = None]}
           ELSE {ctx}
      [] OTHER -> {ctx}

\* Typing.handle records its mutation into the editable's active undo scope
Types(ctx) ==
    /\ ctx.type = "key"
    /\ ctx.range # None
    /\ ctx.editable # 0
    /\ CanRecord(heap[ctx.editable].undoContext)

\* Variant: the registry is asked for the range's own container, not its host
associateEditableNoHost(alohaEvent) ==
    IF alohaEvent.nativeEvent = None THEN alohaEvent
    ELSE IF alohaEvent.nativeEvent = "mousemove" THEN alohaEvent
    ELSE IF alohaEvent.range = None THEN alohaEvent
    ELSE LET host == commonAncestorContainer(alohaEvent.range)
         IN  IF host \notin Elems THEN alohaEvent
             ELSE [alohaEvent EXCEPT !.editable = fromElem(host)]

\* Variant: a context without a native event is associated like any other
associateEditableNoNativeGuard(alohaEvent) ==
    IF alohaEvent.nativeEvent = "mousemove" THEN alohaEvent
    ELSE IF alohaEvent.range = None THEN alohaEvent
    ELSE LET host == editingHost(commonAncestorContainer(alohaEvent.range))
         IN  IF host = None THEN alohaEvent
             ELSE [alohaEvent EXCEPT !.editable = fromElem(host)]

\* Variant: pointer moves are associated like any other notification
associateEditableOnMove(alohaEvent) ==
    IF alohaEvent.nativeEvent = None THEN alohaEvent
    ELSE IF alohaEvent.range = None THEN alohaEvent
    ELSE LET host == editingHost(commonAncestorContainer(alohaEvent.range))
         IN  IF host = None THEN alohaEvent
             ELSE [alohaEvent EXCEPT !.editable = fromElem(host)]

associateEditable(alohaEvent) ==
    IF alohaEvent.nativeEvent = None THEN alohaEvent
    ELSE IF alohaEvent.nativeEvent = "mousemove" THEN alohaEvent
    ELSE IF alohaEvent.range = None THEN alohaEvent
    ELSE LET host == editingHost(commonAncestorContainer(alohaEvent.range))
         IN  IF host = None THEN alohaEvent
             ELSE [alohaEvent EXCEPT !.editable = fromElem(host)]

\* Variant: without a range the selection is reset to the document body
setSelectionAlways(event) == IF event.range # None THEN event.range ELSE "body"

\* What setSelection hands to Ranges.select (None: Ranges.select is not called)
setSelection(event) == IF event.range # None THEN event.range ELSE None

Advance(f, stage) == [f EXCEPT !.pc = @ + 1, !.ran = Append(@, stage)]

\* editor(nativeEvent, custom), called from outside the pipeline
CallEditor(nativeEvent, custom) ==
    /\ Idle
    /\ stack' = <<Frame("editor", None, NewContext(nativeEvent, custom),
                        IF custom # NoContext THEN "custom" ELSE "native")>>
    /\ UNCHANGED <<editables, heap, contentEditable, selection, result, lastRan, overlay>>

RunCollaborator(s) ==
    /\ s \in Collaborators
    /\ AtStage(s)
    /\ \E c \in handle(s, Top.ctx) :
          stack' = SetTop(Advance([Top EXCEPT !.ctx = c], s))
    /\ heap' = IF s = "Typing.handle" /\ Types(Top.ctx)
               THEN [heap EXCEPT ![Top.ctx.editable].undoContext = UndoRecord(@)]
               ELSE heap
    /\ UNCHANGED <<editables, contentEditable, selection, result, lastRan, overlay>>

RunAssociateEditable ==
    /\ AtStage("associateEditable")
    /\ stack' = SetTop(Advance([Top EXCEPT !.ctx = associateEditable(@)],
                               "associateEditable"))
    /\ UNCHANGED <<editables, heap, contentEditable, selection, result, lastRan, overlay>>

RunSetSelection ==
    /\ AtStage("setSelection")
    /\ LET r == setSelection(Top.ctx)
       IN  /\ selection' = IF r # None THEN r ELSE selection
           /\ stack' = SetTop(Advance([Top EXCEPT !.selected = r], "setSelection"))
    /\ UNCHANGED <<editables, heap, contentEditable, result, lastRan, overlay>>

EditorReturn ==
    /\ Running("editor")
    /\ Top.pc = NStages + 1
    /\ stack' = Pop
    /\ lastRan' = Top.ran
    /\ result' = IF Len(stack) = 1 THEN Result("editor", None, None) ELSE result
    /\ UNCHANGED <<editables, heap, contentEditable, selection, overlay>>

----------------------------------------------------------------------------
\* The facade: aloha(elem) and mahalo(elem)

\* Variant: the attach context is dispatched first
alohaBodyDispatchFirst == <<"editor", "Editable", "assocIntoEditor", "enter">>

\* Variant: the attach context is dispatched before the root scope is opened
alohaBodyDispatchBeforeEnter == <<"Editable", "assocIntoEditor", "editor", "enter">>

\* The statements of aloha, in order
alohaBody == <<"Editable", "assocIntoEditor", "enter", "editor">>

\* Variant: the registry entry is not removed
mahaloBodyNoDissoc == <<"fromElem", "close", "removeAttribute", "editor">>

\* Variant: the editable is not closed
mahaloBodyNoClose ==
    <<"fromElem", "dissocFromEditor", "removeAttribute", "editor">>

\* Variant: the contentEditable attribute is left on the element
mahaloBodyNoRemove == <<"fromElem", "close", "dissocFromEditor", "editor">>

\* Variant: the detach context is dispatched before the attribute is removed
mahaloBodyDispatchBeforeRemove ==
    <<"fromElem", "close", "dissocFromEditor", "editor", "removeAttribute">>

\* The statements of mahalo, in order
mahaloBody ==
    <<"fromElem", "close", "dissocFromEditor", "removeAttribute", "editor">>

AtAloha(name) ==
    /\ Running("aloha")
    /\ Top.pc <= Len(alohaBody)
    /\ alohaBody[Top.pc] = name

AtMahalo(name) ==
    /\ Running("mahalo")
    /\ Top.pc <= Len(mahaloBody)
    /\ mahaloBody[Top.pc] = name

Step(f) == [f EXCEPT !.pc = @ + 1]

\* Variant: the exception is caught and the function returns normally
ThrowSwallowed(error) ==
    /\ stack' = Pop
    /\ result' = Result(Top.fn, Top.elem, None)

\* an exception leaves the facade function and reaches its caller
Throw(error) ==
    /\ stack' = Pop
    /\ result' = Result(Top.fn, Top.elem, error)

\* editable.overrides = []; editable.settings = {defaultBlockNodeName: 'div'}
Configure(editable) ==
    [editable EXCEPT !.overrides = <<>>,
                     !.settings = [defaultBlockNodeName |-> "div"]]

\* The options aloha passes to Undo.enter
rootMeta == "external"
rootPartitionRecords == TRUE

CallAloha(elem) ==
    /\ Idle
    /\ AlreadyAttached(elem) \/ Len(heap) < MaxEditables
    /\ stack' = <<Frame("aloha", elem, NoContext, None)>>
    /\ UNCHANGED <<editables, heap, contentEditable, selection, result, lastRan, overlay>>

\* var editable = Editables.Editable(elem); editable.overrides = ...
AlohaEditable ==
    /\ AtAloha("Editable")
    /\ IF AlreadyAttached(Top.elem)
       THEN /\ Throw("AlreadyAttachedError")
            /\ heap' = heap
       ELSE /\ heap' = Append(heap, Configure(Editable(Top.elem)))
            /\ stack' = SetTop(Step([Top EXCEPT !.editable = Len(heap) + 1]))
            /\ result' = result
    /\ UNCHANGED <<editables, contentEditable, selection, lastRan, overlay>>

\* Editables.assocIntoEditor(editor, editable): the editable is registered
\* under its element and is live from here on. aloha does not set the
\* contentEditable attribute itself (line 127 is commented out); marking the
\* element as accepting input is the collaborator's part of the attach.
AlohaAssocIntoEditor ==
    /\ AtAloha("assocIntoEditor")
    /\ editables' = [editables EXCEPT ![Top.elem] = Top.editable]
    /\ heap' = [i \in DOMAIN heap |->
                 IF i = Top.editable THEN [heap[i] EXCEPT !.isOpen = TRUE]
                 ELSE heap[i]]
    /\ contentEditable' = [contentEditable EXCEPT ![Top.elem] = TRUE]
    /\ stack' = SetTop(Step(Top))
    /\ UNCHANGED <<selection, result, lastRan, overlay>>

\* Undo.enter(editable.undoContext, {meta: {type: 'external'}, partitionRecords: true})
AlohaEnter ==
    /\ AtAloha("enter")
    /\ heap' = [i \in DOMAIN heap |->
                 IF i = Top.editable
                 THEN [heap[i] EXCEPT !.undoContext =
                          UndoEnter(@, rootMeta, rootPartitionRecords)]
                 ELSE heap[i]]
    /\ stack' = SetTop(Step(Top))
    /\ UNCHANGED <<editables, contentEditable, selection, result, lastRan, overlay>>

\* editor(null, {'type': 'aloha', 'editable': editable})
AlohaEditor ==
    /\ AtAloha("editor")
    /\ stack' = Append(SetTop(Step([Top EXCEPT !.dispatched = @ + 1])),
                       Frame("editor", Top.elem,
                             NewContext(None, [NoContext EXCEPT
                                 !.type = "aloha", !.editable = Top.editable]),
                             "aloha"))
    /\ UNCHANGED <<editables, heap, contentEditable, selection, result, lastRan, overlay>>

AlohaReturn ==
    /\ Running("aloha")
    /\ Top.pc = Len(alohaBody) + 1
    /\ stack' = Pop
    /\ result' = Result("aloha", Top.elem, None)
    /\ UNCHANGED <<editables, heap, contentEditable, selection, lastRan, overlay>>

CallMahalo(elem) ==
    /\ Idle
    /\ stack' = <<Frame("mahalo", elem, NoContext, None)>>
    /\ UNCHANGED <<editables, heap, contentEditable, selection, result, lastRan, overlay>>

\* var editable = Editables.fromElem(editor, elem)
MahaloFromElem ==
    /\ AtMahalo("fromElem")
    /\ stack' = SetTop(Step([Top EXCEPT !.editable = fromElem(Top.elem)]))
    /\ UNCHANGED <<editables, heap, contentEditable, selection, result, lastRan, overlay>>

\* Editables.close(editable): fails when there is no Editable to close
MahaloClose ==
    /\ AtMahalo("close")
    /\ IF Top.editable = 0
       THEN /\ Throw("NotAttachedError")
            /\ heap' = heap
       ELSE /\ heap' = [heap EXCEPT ![Top.editable] =
                           [@ EXCEPT !.isOpen = FALSE,
                                     !.undoContext = UndoClose(@)]]
            /\ stack' = SetTop(Step(Top))
            /\ result' = result
    /\ UNCHANGED <<editables, contentEditable, selection, lastRan, overlay>>

\* Editables.dissocFromEditor(editor, editable)
MahaloDissocFromEditor ==
    /\ AtMahalo("dissocFromEditor")
    /\ editables' = [editables EXCEPT ![Top.elem] = 0]
    /\ stack' = SetTop(Step(Top))
    /\ UNCHANGED <<heap, contentEditable, selection, result, lastRan, overlay>>

\* elem.removeAttribute('contentEditable')
MahaloRemoveAttribute ==
    /\ AtMahalo("removeAttribute")
    /\ contentEditable' = [contentEditable EXCEPT ![Top.elem] = FALSE]
    /\ stack' = SetTop(Step(Top))
    /\ UNCHANGED <<editables, heap, selection, result, lastRan, overlay>>

\* editor(null, {'type': 'mahalo', 'editable': editable})
MahaloEditor ==
    /\ AtMahalo("editor")
    /\ stack' = Append(SetTop(Step([Top EXCEPT !.dispatched = @ + 1])),
                       Frame("editor", Top.elem,
                             NewContext(None, [NoContext EXCEPT
                                 !.type = "mahalo", !.editable = Top.editable]),
                             "mahalo"))
    /\ UNCHANGED <<editables, heap, contentEditable, selection, result, lastRan, overlay>>

MahaloReturn ==
    /\ Running("mahalo")
    /\ Top.pc = Len(mahaloBody) + 1
    /\ stack' = Pop
    /\ result' = Result("mahalo", Top.elem, None)
    /\ UNCHANGED <<editables, heap, contentEditable, selection, lastRan, overlay>>

----------------------------------------------------------------------------
\* The picker overlay (sandbox/color-picker/overlay.js)

\* A cell of the overlay table is <<row, position in the row>>, both counted
\* from 1; NoCell stands for no element (undefined, an empty jQuery set)
NoCell == <<0, 0>>

\* The overlay before new Overlay(items, onSelect): no element, no table.
\*   items     the array the overlay was built from
\*   table     the rows of the tbody, each the sequence of its cells' items
\*   display   the display style of the table element
\*   active    overlay._active
\*   focused,
\*   selected  the cells carrying the class
\*   hover     the cell the pointer is over
\*   calls,
\*   last      how often onSelect was called, and with what the last time
NoOverlay ==
    [constructed |-> FALSE, items |-> <<>>, table |-> <<>>,
     display |-> "none", active |-> "undefined",
     focused |-> {}, selected |-> {}, hover |-> NoCell,
     calls |-> 0, last |-> NoCell]

\* The items of an array are strings: 0 stands for the empty string, a
\* positive number for a string that is not empty, different numbers for
\* different strings
Truthy(item) == item # 0

\* The arrays an overlay is built from: 1, 2, ..., n, and the same with one
\* item replaced by the empty string
ItemArrays ==
    {[k \in 1..n |-> k] : n \in 0..MaxItems}
       \cup {[k \in 1..MaxItems |-> IF k = j THEN 0 ELSE k] : j \in 1..MaxItems}

\* if (0 !== i && (0 === (i % 18)))
rowLength == 18

\* The loop of populate: table = ['<tr>']; while (item) { ...; item = items[++i] }
populateLoop(items, i, table) ==
    IF i >= Len(items) \/ ~Truthy(items[i + 1])
    THEN table
    ELSE LET t == IF i # 0 /\ i % rowLength = 0
                  THEN Append(table, <<>>)
                  ELSE table
         IN  populateLoop(items, i + 1,
                          [t EXCEPT ![Len(t)] = Append(@, items[i + 1])])

\* populate(overlay, items, onSelect): the rows put into the tbody
populate(items) == populateLoop(items, 0, << <<>> >>)

\* overlay.$element.find('td')
Cells(o) ==
    UNION {{<<r, k>> : k \in DOMAIN o.table[r]} : r \in DOMAIN o.table}

\* document order
Before(c, d) == c[1] < d[1] \/ (c[1] = d[1] /\ c[2] < d[2])

\* $set[0]: the first element of a jQuery set, undefined when it is empty
First(S) ==
    IF S = {} THEN NoCell
    ELSE CHOOSE c \in S : \A d \in S : c = d \/ Before(c, d)

\* Variant: the keyboard handlers take the overlay for visible at all times
isOverlayVisibleAlways(o) == o.constructed

\* overlay.$element.css('display') === 'table'
isOverlayVisible(o) == o.display = "table"

\* $set.prev() and $set.next(): the sibling before and after each element
prev(S) == {<<c[1], c[2] - 1>> : c \in {d \in S : d[2] > 1}}
next(o, S) ==
    {<<c[1], c[2] + 1>> : c \in {d \in S : d[2] < Len(o.table[d[1]])}}

\* $set.parent().prev() and $set.parent().next(): rows, by their number
prevRows(S) == {c[1] - 1 : c \in {d \in S : d[1] > 1}}
nextRows(o, S) == {c[1] + 1 : c \in {d \in S : d[1] < Len(o.table)}}

\* $rows.children()[index]: the cells of the rows in document order
childAt(o, R, index) ==
    IF R = {} \/ index < 0 THEN NoCell
    ELSE LET r == CHOOSE q \in R : \A q2 \in R : q <= q2
         IN  IF index < Len(o.table[r]) THEN <<r, index + 1>>
             ELSE childAt(o, R \ {r}, index - Len(o.table[r]))

\* $set.index(): the position of the first element among its siblings
index(S) == First(S)[2] - 1

\* Overlay.prototype.show and hide
show(o) == [o EXCEPT !.display = "table", !.active = "true"]
hide(o) == [o EXCEPT !.display = "none", !.active = "false"]

\* Overlay.prototype.clear: the first selected and the first focused cell
clear(o) ==
    [o EXCEPT !.selected = @ \ {First(@)}, !.focused = @ \ {First(@)}]

\* Overlay.prototype.focus(elem)
focus(o, elem) ==
    IF elem = NoCell THEN clear(o)
    ELSE [clear(o) EXCEPT !.focused = @ \cup {elem},
                          !.selected = @ \cup {elem}]

\* blur($current); focus($target) of the arrow keys, when $target.length
move(o, current, target) ==
    IF target = {} THEN o
    ELSE [o EXCEPT !.focused = (@ \ current) \cup target]

\* The handlers of movements, by key code
keys(o, keyCode, current) ==
    CASE keyCode = 13 ->
           [hide(o) EXCEPT !.focused = @ \cup current,
                           !.calls = @ + 1,
                           !.last = First(current)]
      [] keyCode = 37 -> move(o, current, prev(current))
      [] keyCode = 39 -> move(o, current, next(o, current))
      [] keyCode = 38 ->
           IF prevRows(current) = {} THEN o
           ELSE move(o, current,
                     {childAt(o, prevRows(current), index(current))} \ {NoCell})
      [] keyCode = 40 ->
           IF nextRows(o, current) = {} THEN o
           ELSE move(o, current,
                     {childAt(o, nextRows(o, current), index(current))}
                        \ {NoCell})
      [] OTHER -> o

\* The key codes with a handler in movements, and the other codes tried
MovementKeys == {13, 37, 38, 39, 40}
KeyCodes == MovementKeys \cup {27, 65}

\* The keydown handler of movements
keydown(o, keyCode) ==
    IF keyCode \in MovementKeys /\ isOverlayVisible(o)
    THEN keys(o, keyCode, IF o.focused # {} THEN o.focused ELSE o.selected)
    ELSE o

\* The keyup handler of hideOnEsc
keyup(o, keyCode) ==
    IF keyCode = 27 /\ isOverlayVisible(o) THEN hide(o) ELSE o

\* The mousedown handler of hideOnDocumentClick; inside: the target is in
\* the overlay element
mousedown(o, inside) ==
    IF o.active = "true" /\ ~inside THEN hide(o) ELSE o

\* The pointer is over no cell of a table that is not displayed
Settle(o) == IF o.display = "none" THEN [o EXCEPT !.hover = NoCell] ELSE o

EditorVars ==
    <<editables, heap, contentEditable, selection, stack, result, lastRan>>

\* new Overlay(items, onSelect). The element is created without a display
\* style of its own; the page keeps it out of sight until show().
NewOverlay(items) ==
    /\ ~overlay.constructed
    /\ overlay' = [NoOverlay EXCEPT !.constructed = TRUE, !.items = items,
                                    !.table = populate(items)]
    /\ UNCHANGED EditorVars

Show ==
    /\ overlay.constructed
    /\ overlay' = show(overlay)
    /\ UNCHANGED EditorVars

Hide ==
    /\ overlay.constructed
    /\ overlay' = Settle(hide(overlay))
    /\ UNCHANGED EditorVars

Clear ==
    /\ overlay.constructed
    /\ overlay' = clear(overlay)
    /\ UNCHANGED EditorVars

Focus(elem) ==
    /\ overlay.constructed
    /\ elem \in Cells(overlay) \cup {NoCell}
    /\ overlay' = focus(overlay, elem)
    /\ UNCHANGED EditorVars

KeyDown(keyCode) ==
    /\ overlay.constructed
    /\ (keyCode = 13 /\ isOverlayVisible(overlay))
          => overlay.calls < MaxSelects
    /\ overlay' = Settle(keydown(overlay, keyCode))
    /\ UNCHANGED EditorVars

KeyUp(keyCode) ==
    /\ overlay.constructed
    /\ overlay' = Settle(keyup(overlay, keyCode))
    /\ UNCHANGED EditorVars

\* mousedown somewhere in the document; in the overlay only if it is shown
DocumentMouseDown(inside) ==
    /\ overlay.constructed
    /\ inside => isOverlayVisible(overlay)
    /\ overlay' = Settle(mousedown(overlay, inside))
    /\ UNCHANGED EditorVars

\* on('mouseover', 'td'): $(this).addClass('focused')
MouseOver(cell) ==
    /\ isOverlayVisible(overlay)
    /\ overlay.hover = NoCell
    /\ Cardinality(overlay.focused \cup {cell}) <= MaxMarks
    /\ cell \in Cells(overlay)
    /\ overlay' = [overlay EXCEPT !.focused = @ \cup {cell}, !.hover = cell]
    /\ UNCHANGED EditorVars

\* on('mouseout', 'td'): $tds.filter('td.focused').removeClass('focused')
MouseOut ==
    /\ isOverlayVisible(overlay)
    /\ overlay.hover # NoCell
    /\ overlay' = [overlay EXCEPT !.focused = {}, !.hover = NoCell]
    /\ UNCHANGED EditorVars

\* on('click', 'td'): overlay.$element.hide(); onSelect(this)
Click ==
    /\ isOverlayVisible(overlay)
    /\ overlay.hover # NoCell
    /\ overlay.calls < MaxSelects
    /\ overlay' = Settle([overlay EXCEPT !.display = "none",
                                         !.calls = @ + 1,
                                         !.last = overlay.hover])
    /\ UNCHANGED EditorVars

\* The arrays of the overlays that are shown and used: none, one and as
\* many items as the bound allows, which is more than one row
UsedArrays == {items \in ItemArrays :
                  /\ Len(items) \in {0, 1, MaxItems}
                  /\ \A k \in DOMAIN items : Truthy(items[k])}

\* The cells given to Overlay.prototype.focus and the cells the pointer
\* goes over: the first cell of the table, from where the arrow keys reach
\* the others
FocusTargets == {NoCell, <<1, 1>>}
HoverCells == {<<1, 1>>}

NextOverlay ==
    \/ \E items \in UsedArrays : NewOverlay(items)
    \/ Show
    \/ Hide
    \/ Clear
    \/ \E elem \in FocusTargets : Focus(elem)
    \/ \E keyCode \in KeyCodes : KeyDown(keyCode)
    \/ \E keyCode \in KeyCodes : KeyUp(keyCode)
    \/ \E inside \in BOOLEAN : DocumentMouseDown(inside)
    \/ \E cell \in HoverCells : MouseOver(cell)
    \/ MouseOut
    \/ Click

\* Overlays are built from every array, shown and hidden
NextPopulate ==
    \/ \E items \in ItemArrays : NewOverlay(items)
    \/ Show
    \/ Hide

----------------------------------------------------------------------------
\* The specification

Init ==
    /\ editables = [e \in Elems |-> 0]
    /\ heap = <<>>
    /\ contentEditable = [e \in Elems |-> FALSE]
    /\ selection = None
    /\ stack = <<>>
    /\ result = Result(None, None, None)
    /\ lastRan = <<>>
    /\ overlay = NoOverlay

Next ==
    \/ \E e \in Elems : CallAloha(e)
    \/ \E e \in Elems : CallMahalo(e)
    \/ \E ne \in EventTypes \cup {None}, c \in CustomContexts \cup {NoContext} :
          CallEditor(ne, c)
    \/ \E s \in Collaborators : RunCollaborator(s)
    \/ RunAssociateEditable
    \/ RunSetSelection
    \/ EditorReturn
    \/ AlohaEditable
    \/ AlohaAssocIntoEditor
    \/ AlohaEnter
    \/ AlohaEditor
    \/ AlohaReturn
    \/ MahaloFromElem
    \/ MahaloClose
    \/ MahaloDissocFromEditor
    \/ MahaloRemoveAttribute
    \/ MahaloEditor
    \/ MahaloReturn

Spec == Init /\ [][Next]_vars

----------------------------------------------------------------------------
\* Stages that make calls of their own

\* editor, aloha and mahalo are ordinary functions: a call made while a stage
\* runs is entered at once, on top of the stage that makes it, and the stage
\* goes on when the call has returned.

\* Variant: the call is put off until the calls in progress have returned
InvokeDeferred(frame) == <<frame>> \o stack

Invoke(frame) == Append(stack, frame)

\* The contexts a stage dispatches for a follow-up occurrence
FollowUps ==
    {c \in CustomContexts :
        c.nativeEvent = None /\ c.editable = 0 /\ c.range = "inner"}

\* The stages that make calls: the first of the chain, which runs before the
\* editable is associated, and one that runs after it
CallingStages == {"Keys.handle", "Typing.handle"}

\* The dispatches in progress
Depth == Cardinality({i \in DOMAIN stack : stack[i].fn = "editor"})

\* The elements the nested scenarios attach and detach
NestedElems == {"inner"}

\* a stage calls editor(null, custom) before it returns its context
StageCallsEditor(s) ==
    /\ s \in CallingStages
    /\ AtStage(s)
    /\ Depth < MaxDepth
    /\ \E c \in FollowUps :
          stack' = Invoke(Frame("editor", None, NewContext(None, c), "custom"))
    /\ UNCHANGED <<editables, heap, contentEditable, selection, result, lastRan, overlay>>

\* a stage calls aloha(elem): two more frames, aloha and its dispatch
StageCallsAloha(s, elem) ==
    /\ s \in CallingStages
    /\ AtStage(s)
    /\ Depth < MaxDepth
    /\ AlreadyAttached(elem) \/ Len(heap) < MaxEditables
    /\ stack' = Invoke(Frame("aloha", elem, NoContext, None))
    /\ UNCHANGED <<editables, heap, contentEditable, selection, result, lastRan, overlay>>

\* a stage calls mahalo(elem)
StageCallsMahalo(s, elem) ==
    /\ s \in CallingStages
    /\ AtStage(s)
    /\ Depth < MaxDepth
    /\ stack' = Invoke(Frame("mahalo", elem, NoContext, None))
    /\ UNCHANGED <<editables, heap, contentEditable, selection, result, lastRan, overlay>>

NextNested ==
    \/ \E e \in NestedElems : CallAloha(e)
    \/ \E e \in NestedElems : CallMahalo(e)
    \/ \E ne \in {"keydown"} : CallEditor(ne, NoContext)
    \/ \E s \in CallingStages : StageCallsEditor(s)
    \/ \E s \in CallingStages, e \in NestedElems : StageCallsAloha(s, e)
    \/ \E s \in CallingStages, e \in NestedElems : StageCallsMahalo(s, e)
    \/ \E s \in Collaborators : RunCollaborator(s)
    \/ RunAssociateEditable
    \/ RunSetSelection
    \/ EditorReturn
    \/ AlohaEditable
    \/ AlohaAssocIntoEditor
    \/ AlohaEnter
    \/ AlohaEditor
    \/ AlohaReturn
    \/ MahaloFromElem
    \/ MahaloClose
    \/ MahaloDissocFromEditor
    \/ MahaloRemoveAttribute
    \/ MahaloEditor
    \/ MahaloReturn

SpecNested == Init /\ [][NextNested]_vars

----------------------------------------------------------------------------
\* The undo interface of an Editable's context, called between dispatches

\* The Editable whose context is used, and the tags of the scopes entered
ApiEditables == {1}
UserMetas == {"user-device"}

ApiResult(fn, i, h, error) ==
    [fn |-> fn, elem |-> heap[i].elem, error |-> error,
     editable |-> i, handle |-> h]

SetContext(i, context) == [heap EXCEPT ![i].undoContext = context]

\* enter(meta, partitionRecords) -> handle
UndoApiEnter(i, meta, partitionRecords) ==
    /\ Idle
    /\ i \in ApiEditables \cap DOMAIN heap
    /\ heap[i].undoContext.handles < MaxScopes
    /\ heap' = SetContext(i, UndoEnter(heap[i].undoContext, meta,
                                       partitionRecords))
    /\ result' = ApiResult("enter", i, heap[i].undoContext.handles + 1, None)
    /\ UNCHANGED <<editables, contentEditable, selection, stack, lastRan, overlay>>

\* exit(handle), for a handle that enter returned. aloha drops the handle of
\* the root scope (the value of Undo.enter is not used), so no caller holds it.
UndoApiExit(i, h) ==
    /\ Idle
    /\ i \in ApiEditables \cap DOMAIN heap
    /\ h \in 2..heap[i].undoContext.handles
    /\ IF IsInnermost(heap[i].undoContext, h)
       THEN /\ heap' = SetContext(i, UndoExit(heap[i].undoContext))
            /\ result' = ApiResult("exit", i, h, None)
       ELSE /\ heap' = heap
            /\ result' = ApiResult("exit", i, h, "ScopeMismatchError")
    /\ UNCHANGED <<editables, contentEditable, selection, stack, lastRan, overlay>>

\* record(editOperation)
UndoApiRecord(i) ==
    /\ Idle
    /\ i \in ApiEditables \cap DOMAIN heap
    /\ IF heap[i].undoContext.frames = <<>>
       THEN /\ heap' = heap
            /\ result' = ApiResult("record", i, 0, "NoOpenScopeError")
       ELSE /\ heap[i].undoContext.edits < MaxRecords
            /\ heap' = SetContext(i, UndoRecord(heap[i].undoContext))
            /\ result' = ApiResult("record", i, 0, None)
    /\ UNCHANGED <<editables, contentEditable, selection, stack, lastRan, overlay>>

\* undo()
UndoApiUndo(i) ==
    /\ Idle
    /\ i \in ApiEditables \cap DOMAIN heap
    /\ IF Undoable(heap[i].undoContext) = <<>>
       THEN /\ heap' = heap
            /\ result' = ApiResult("undo", i, 0,
                             IF heap[i].undoContext.frames = <<>>
                             THEN "NoOpenScopeError" ELSE "NothingToUndo")
       ELSE /\ heap' = SetContext(i, UndoUndo(heap[i].undoContext))
            /\ result' = ApiResult("undo", i, 0, None)
    /\ UNCHANGED <<editables, contentEditable, selection, stack, lastRan, overlay>>

\* aloha(elem) for the one Editable that is attached, used and detached
AttachOnce(elem) == heap = <<>> /\ CallAloha(elem)

NextUndo ==
    \/ \E e \in NestedElems : AttachOnce(e)
    \/ \E e \in NestedElems : CallMahalo(e)
    \/ \E i \in ApiEditables, m \in UserMetas, p \in BOOLEAN :
          UndoApiEnter(i, m, p)
    \/ \E i \in ApiEditables, h \in 1..MaxScopes : UndoApiExit(i, h)
    \/ \E i \in ApiEditables : UndoApiRecord(i)
    \/ \E i \in ApiEditables : UndoApiUndo(i)
    \/ \E s \in Collaborators : RunCollaborator(s)
    \/ RunAssociateEditable
    \/ RunSetSelection
    \/ EditorReturn
    \/ AlohaEditable
    \/ AlohaAssocIntoEditor
    \/ AlohaEnter
    \/ AlohaEditor
    \/ AlohaReturn
    \/ MahaloFromElem
    \/ MahaloClose
    \/ MahaloDissocFromEditor
    \/ MahaloRemoveAttribute
    \/ MahaloEditor
    \/ MahaloReturn

SpecUndo == Init /\ [][NextUndo]_vars

SpecOverlay == Init /\ [][NextOverlay]_vars

SpecPopulate == Init /\ [][NextPopulate]_vars

----------------------------------------------------------------------------
\* Properties

\* The order of the stages the pipeline is specified to have
PipelineOrder ==
    <<"Keys.handle", "Mouse.handle", "associateEditable", "Paste.handle",
      "DragDrop.handle", "Blocks.handle", "Typing.handle", "Selections.handle",
      "setSelection">>

IsPrefix(s, t) == Len(s) <= Len(t) /\ s = SubSeq(t, 1, Len(s))

Ran(f, stage) == \E k \in DOMAIN f.ran : f.ran[k] = stage

JustRan(stage) ==
    /\ Running("editor")
    /\ Top.ran # <<>>
    /\ Top.ran[Len(Top.ran)] = stage

RECURSIVE NearestAttached(_)
NearestAttached(node) ==
    IF node \notin Elems THEN None
    ELSE IF editables[node] # 0 THEN node
    ELSE NearestAttached(parentNode(node))

\* C1: every dispatch, whatever its context holds, runs the nine stages once
\* each in the order key, pointer, editable association, paste, drag/drop,
\* block widget, typing, selection interpretation, selection commit: what a
\* dispatch in progress has run is a prefix of that order, and what a
\* completed dispatch ran is all of it.
C1_StagesRunOnceInOrder ==
    /\ lastRan \in {<<>>, PipelineOrder}
    /\ \A i \in DOMAIN stack :
          stack[i].fn = "editor" => IsPrefix(stack[i].ran, PipelineOrder)

\* a dispatch of a context with no native event, no range and no editable,
\* before any editable exists, has completed
C1_Witness ==
    /\ Idle
    /\ result.fn = "editor"
    /\ lastRan = PipelineOrder
    /\ selection = None
    /\ heap = <<>>

\* C2: the native selection is written during a dispatch exactly when the
\* context has a range as the selection-commit stage runs, and with that
\* range; no other step changes it, so a dispatch whose context has no range
\* then, and every attach and detach, leaves the selection as it found it.
C2_SelectionWrittenIffRange ==
    [][ /\ \A i \in DOMAIN stack :
             /\ stack[i].fn = "editor" =>
                   stack[i].selected =
                       IF Ran(stack[i], "setSelection")
                       THEN stack[i].ctx.range ELSE None
             /\ (stack[i].fn = "editor" /\ stack[i].selected = None) =>
                   selection = stack[i].entry.selection
             /\ stack[i].fn \in {"aloha", "mahalo"} =>
                   selection = stack[i].entry.selection
        /\ IF AtStage("setSelection") /\ Top.ctx.range # None
           THEN selection' = Top.ctx.range
           ELSE selection' = selection ]_vars

\* a native dispatch has committed the range it ended with
C2_Witness ==
    /\ Running("editor")
    /\ Top.origin = "native"
    /\ Ran(Top, "setSelection")
    /\ Top.selected = "inner"
    /\ selection = "inner"
    /\ Top.entry.selection = None

C8_AssociationSkipsMoveAndNoRange ==
    [][ (AtStage("associateEditable")
            /\ (Top.ctx.nativeEvent = "mousemove" \/ Top.ctx.range = None))
        => /\ Len(stack') = Len(stack)
           /\ stack'[Len(stack)].ctx = Top.ctx
           /\ stack'[Len(stack)].ran = Append(Top.ran, "associateEditable")
           /\ stack'[Len(stack)].pc = Top.pc + 1 ]_vars

\* a pointer move over the attached inner element passed with no editable
C8_Witness ==
    /\ JustRan("associateEditable")
    /\ Top.ctx.nativeEvent = "mousemove"
    /\ Top.ctx.range = "inner"
    /\ editables["inner"] # 0
    /\ Top.ctx.editable = 0

\* C9: a successful attach creates the Editable with empty overrides and
\* defaultBlockNodeName 'div', registers it, opens its root undo scope
\* ({type: 'external'}, partitionRecords true) and only then dispatches one
\* attach context carrying it: a scope is never open on an unregistered
\* Editable, a registered Editable is configured, and while the attach
\* context is in the pipeline its Editable is registered with the root scope
\* open.
C9_AttachOrder ==
    /\ \A e \in DOMAIN heap :
          heap[e].undoContext.frames # <<>> => editables[heap[e].elem] = e
    /\ \A x \in Elems :
          editables[x] # 0 =>
              /\ editables[x] \in DOMAIN heap
              /\ heap[editables[x]].elem = x
              /\ heap[editables[x]].overrides = <<>>
              /\ heap[editables[x]].settings = [defaultBlockNodeName |-> "div"]
    /\ \A i \in DOMAIN stack :
          (stack[i].fn = "editor" /\ stack[i].origin = "aloha") =>
              LET e == stack[i].ctx.editable
              IN  /\ stack[i].ctx.type = "aloha"
                  /\ e # 0
                  /\ editables[stack[i].elem] = e
                  /\ Len(heap[e].undoContext.frames) = 1
                  /\ heap[e].undoContext.frames[1].meta = "external"
                  /\ heap[e].undoContext.frames[1].partitionRecords
                  /\ stack[i - 1].fn = "aloha"
                  /\ stack[i - 1].dispatched = 1
    /\ (Running("aloha") /\ Top.pc > Len(alohaBody)) => Top.dispatched = 1

\* every stage has seen the attach context of inner
C9_Witness ==
    /\ Running("editor")
    /\ Top.origin = "aloha"
    /\ Top.elem = "inner"
    /\ Top.ran = PipelineOrder

\* C10: a successful detach marks the Editable closed, closes its undo scope,
\* removes the registry entry and clears the editability flag before it
\* dispatches one detach context, which carries the outgoing Editable though
\* the registry no longer maps the element to it.
C10_DetachOrder ==
    /\ \A i \in DOMAIN stack :
          (stack[i].fn = "editor" /\ stack[i].origin = "mahalo") =>
              LET e == stack[i].ctx.editable
              IN  /\ stack[i].ctx.type = "mahalo"
                  /\ e = stack[i - 1].entry.editables[stack[i].elem]
                  /\ e # 0
                  /\ ~heap[e].isOpen
                  /\ heap[e].undoContext.frames = <<>>
                  /\ editables[stack[i].elem] = 0
                  /\ ~contentEditable[stack[i].elem]
                  /\ stack[i - 1].fn = "mahalo"
                  /\ stack[i - 1].dispatched = 1
    /\ (Running("mahalo") /\ Top.pc > Len(mahaloBody)) => Top.dispatched = 1

\* every stage has seen the detach context of outer
C10_Witness ==
    /\ Running("editor")
    /\ Top.origin = "mahalo"
    /\ Top.elem = "outer"
    /\ Top.ran = PipelineOrder
    /\ heap[Top.ctx.editable].elem = "outer"

C13_ContextHasEditor ==
    \A i \in DOMAIN stack :
        stack[i].fn = "editor" =>
            /\ stack[i].ctx.editor
            /\ stack[i].ran = <<>> =>
                  CASE stack[i].origin = "native" ->
                         \E ne \in EventTypes \cup {None} :
                            stack[i].ctx =
                               [nativeEvent |-> ne, type |-> "native",
                                range |-> None, editable |-> 0,
                                editor |-> TRUE]
                    [] stack[i].origin = "custom" ->
                         \E c \in CustomContexts :
                            stack[i].ctx = [c EXCEPT !.editor = TRUE]
                    [] OTHER ->
                         stack[i].ctx =
                            [nativeEvent |-> None, type |-> stack[i].origin,
                             range |-> None,
                             editable |-> stack[i - 1].editable,
                             editor |-> TRUE]

\* a context supplied by the caller has gone through all nine stages
C13_Witness ==
    /\ Running("editor")
    /\ Top.origin = "custom"
    /\ Top.ctx.range = "inner"
    /\ Top.ran = PipelineOrder
    /\ Top.ctx.editor

\* C17: a context without a native event leaves the editable-association
\* stage as it entered it, range or no range, and no stage of its pass
\* replaces its editable: the attach and detach contexts carry the Editable
\* of their call through all nine stages.
C17_NoNativeEventKeepsEditable ==
    [][ /\ \A i \in DOMAIN stack :
             (stack[i].fn = "editor" /\ stack[i].origin \in {"aloha", "mahalo"})
                => stack[i].ctx.editable = stack[i - 1].editable
        /\ (Running("editor") /\ Top.ctx.nativeEvent = None
               /\ Len(stack') = Len(stack))
             => /\ stack'[Len(stack)].ctx.editable = Top.ctx.editable
                /\ AtStage("associateEditable")
                      => stack'[Len(stack)].ctx = Top.ctx ]_vars

\* a context with a range inside the attached inner element and no native
\* event has passed the association stage without inner's Editable
C17_Witness ==
    /\ JustRan("associateEditable")
    /\ Top.ctx.nativeEvent = None
    /\ Top.ctx.range = "inner"
    /\ editables["inner"] # 0
    /\ Top.ctx.editable # editables["inner"]

\* C12: dispatches are strictly nested. A call made by a stage is entered on
\* top of the dispatch that makes it; while it is in progress no dispatch
\* below it runs a stage or has its context touched; and a dispatch leaves
\* the stack only with all nine stages run, so the inner nine stages are
\* over before the outer dispatch goes on to its next stage. Only the
\* innermost dispatch ever executes a stage.
C12_StrictNesting ==
    [][ LET n == Len(stack)
            m == Len(stack')
        IN  /\ m \in {n - 1, n, n + 1}
            /\ \A i \in 1..(n - 1) : i <= m => stack'[i] = stack[i]
            /\ m = n + 1 =>
                  /\ stack'[m].pc = 1
                  /\ stack'[m].ran = <<>>
                  /\ n > 0 =>
                        /\ stack'[n].ran = stack[n].ran
                        /\ stack'[n].ctx = stack[n].ctx
                        /\ stack[n].fn = "editor"
                              => /\ stack'[n] = stack[n]
                                 /\ stack[n].pc <= NStages
            /\ (m = n - 1 /\ Top.fn = "editor") =>
                  /\ Top.ran = PipelineOrder
                  /\ lastRan' = PipelineOrder ]_vars

\* a stage of a key dispatch has called aloha, and the attach dispatch has
\* run its nine stages while the key dispatch is still at that stage
C12_Witness ==
    /\ Len(stack) = 3
    /\ stack[1].fn = "editor"
    /\ stack[1].ctx.nativeEvent = "keydown"
    /\ stack[1].pc <= NStages
    /\ StageAt(stack[1].pc) = "Typing.handle"
    /\ stack[2].fn = "aloha"
    /\ Top.fn = "editor"
    /\ Top.origin = "aloha"
    /\ Top.ran = PipelineOrder

\* A step from one quiescent state to another made by the named operation
\* of the undo interface
ApiStep(fn) == Idle /\ stack' = <<>> /\ result'.fn = fn

Handles(context) ==
    [k \in DOMAIN context.frames |-> context.frames[k].handle]

EditsOf(step) == {step[k] : k \in DOMAIN step}

EditsIn(steps) == UNION {EditsOf(steps[k]) : k \in DOMAIN steps}

\* C14: the scopes of one undo context are closed innermost first. exit(h)
\* succeeds exactly when h is the handle of the innermost open scope, and
\* then removes that scope only; otherwise it fails with ScopeMismatchError
\* and nothing changes. With two scopes open, the outer one cannot be closed
\* before the inner one, and can be closed right after it.
C14_ScopeStackDiscipline ==
    [][ /\ \A i \in DOMAIN heap :
             LET c == heap[i].undoContext
                 n == Len(c.frames)
             IN  n >= 2 =>
                    /\ ~IsInnermost(c, c.frames[n - 1].handle)
                    /\ IsInnermost(c, c.frames[n].handle)
                    /\ IsInnermost(UndoExit(c), c.frames[n - 1].handle)
        /\ ApiStep("exit") =>
             LET i == result'.editable
                 c == heap[i].undoContext
                 n == Len(c.frames)
             IN  IF n > 0 /\ c.frames[n].handle = result'.handle
                 THEN /\ result'.error = None
                      /\ Handles(heap'[i].undoContext)
                            = SubSeq(Handles(c), 1, n - 1)
                 ELSE /\ result'.error = "ScopeMismatchError"
                      /\ heap' = heap ]_vars

\* after enter(m1, false) and enter(m2, true), exit(h1) has failed
C14_Witness ==
    /\ Idle
    /\ result.fn = "exit"
    /\ result.error = "ScopeMismatchError"
    /\ LET c == heap[result.editable].undoContext
           n == Len(c.frames)
       IN  /\ n >= 2
           /\ c.frames[n - 1].handle = result.handle
           /\ ~c.frames[n - 1].partitionRecords
           /\ c.frames[n].partitionRecords

\* C15: what one undo() takes back. The edits recorded in a scope entered
\* with partitionRecords = false go together, in one undo(); an edit
\* recorded while every open scope had partitionRecords = true (as the root
\* scope of attach has) goes alone, so n of them take n calls; and the edits
\* taken back are more recent than every edit that can still be undone.
C15_UndoPartitioning ==
    [][ (ApiStep("undo") /\ result'.error = None) =>
           LET i == result'.editable
               c == heap[i].undoContext
               d == heap'[i].undoContext
               step == d.reverted[Len(d.reverted)]
               es == EditsOf(step)
               rest == EditsIn(Undoable(d))
           IN  /\ d.reverted = Append(c.reverted, step)
               /\ es # {}
               /\ rest \cup es = EditsIn(Undoable(c))
               /\ rest \cap es = {}
               /\ \A e \in es :
                     /\ ~c.log[e].partition =>
                           \A e2 \in 1..c.edits :
                              c.log[e2].scope = c.log[e].scope => e2 \in es
                     /\ c.log[e].alone => es = {e}
                     /\ \A e2 \in rest : e2 < e ]_vars

\* two edits recorded in a scope that does not partition its records, inside
\* the root scope, have been taken back by one undo()
C15_Witness ==
    /\ Idle
    /\ result.fn = "undo"
    /\ result.error = None
    /\ LET c == heap[result.editable].undoContext
       IN  /\ c.frames # <<>>
           /\ c.frames[1].meta = rootMeta
           /\ c.reverted = << <<1, 2>> >>
           /\ ~c.log[1].partition
           /\ c.log[2].scope = c.log[1].scope

\* The root scope of an Editable's undo context is the first scope entered
RootOpen(context) ==
    /\ context.frames # <<>>
    /\ context.frames[1].handle = 1
    /\ context.frames[1].meta = rootMeta

\* C16: between calls, the root undo scope of an Editable is open exactly
\* when the Editable is attached. undo() on a context in which nothing was
\* recorded fails and changes nothing, and with no scope open, as after an
\* attach followed by a detach, it fails with NoOpenScopeError.
C16_RootScopeOpenWhileAttached ==
    [][ /\ Idle =>
             \A i \in DOMAIN heap :
                RootOpen(heap[i].undoContext) <=> editables[heap[i].elem] = i
        /\ (ApiStep("undo") /\ heap[result'.editable].undoContext.edits = 0) =>
             /\ result'.error # None
             /\ heap' = heap
             /\ heap[result'.editable].undoContext.frames = <<>>
                   => result'.error = "NoOpenScopeError" ]_vars

\* attach, detach, no edit and no other scope, then undo() has failed
C16_Witness ==
    /\ Idle
    /\ result.fn = "undo"
    /\ result.error = "NoOpenScopeError"
    /\ LET e == heap[result.editable]
       IN  /\ ~e.isOpen
           /\ editables[e.elem] = 0
           /\ e.undoContext.handles = 1
           /\ e.undoContext.edits = 0
           /\ e.undoContext.frames = <<>>

\* C18: once the overlay exists, _active is true exactly when the overlay
\* element is displayed, whatever was done to it: show, hide, Escape, Enter,
\* a mousedown in the document, a click on a cell.
C18_ActiveIffDisplayed ==
    overlay.constructed =>
       (overlay.active = "true" <=> isOverlayVisible(overlay))

\* The cell next to a cell in the direction of an arrow key, or the cell
\* itself where the table has no such cell
Adjacent(o, c, keyCode) ==
    CASE keyCode = 37 -> IF c[2] > 1 THEN <<c[1], c[2] - 1>> ELSE c
      [] keyCode = 39 ->
           IF c[2] < Len(o.table[c[1]]) THEN <<c[1], c[2] + 1>> ELSE c
      [] keyCode = 38 ->
           IF c[1] > 1 /\ c[2] <= Len(o.table[c[1] - 1])
           THEN <<c[1] - 1, c[2]>> ELSE c
      [] keyCode = 40 ->
           IF c[1] < Len(o.table) /\ c[2] <= Len(o.table[c[1] + 1])
           THEN <<c[1] + 1, c[2]>> ELSE c
      [] OTHER -> c

ArrowKeys == {37, 38, 39, 40}

\* No key changes the focused cells or calls onSelect on an overlay that is
\* not displayed
HiddenUntouched(o) ==
    ~isOverlayVisible(o) =>
       \A keyCode \in KeyCodes :
          /\ keydown(o, keyCode).focused = o.focused
          /\ keydown(o, keyCode).calls = o.calls
          /\ keyup(o, keyCode).focused = o.focused
          /\ keyup(o, keyCode).calls = o.calls

\* C19 as it is worded: on a hidden overlay no key changes the focused cells
\* or calls onSelect; on a visible one an arrow key takes every 'focused'
\* mark to the adjacent cell, or leaves it where the table ends, and Enter
\* hides the overlay and calls onSelect once, with a focused cell, or with a
\* selected cell when none is focused.
C19_KeysAsWorded ==
    overlay.constructed =>
       /\ HiddenUntouched(overlay)
       /\ isOverlayVisible(overlay) =>
             /\ \A keyCode \in ArrowKeys :
                   overlay.focused # {} =>
                      keydown(overlay, keyCode).focused =
                         {Adjacent(overlay, c, keyCode) : c \in overlay.focused}
             /\ LET o == keydown(overlay, 13)
                IN  /\ ~isOverlayVisible(o)
                    /\ o.calls = overlay.calls + 1
                    /\ o.last \in (IF overlay.focused # {}
                                   THEN overlay.focused ELSE overlay.selected)

\* The cells a key acts on: the focused ones, or the selected ones when no
\* cell is focused
Current(o) == IF o.focused # {} THEN o.focused ELSE o.selected

\* C19: on a hidden overlay no key changes the focused cells or calls
\* onSelect. On a visible one, when the keys act on a single cell (the
\* focused cell, or the selected cell when none is focused), an arrow key
\* takes the 'focused' mark from that cell to the adjacent one, same column
\* for up and down, and changes no mark where the table has no such cell;
\* Enter hides the overlay and calls onSelect once, with the first focused
\* cell, or the first selected cell when none is focused, or no cell when
\* there is neither.
C19_KeysActWhileVisible ==
    overlay.constructed =>
       /\ HiddenUntouched(overlay)
       /\ isOverlayVisible(overlay) =>
             /\ \A keyCode \in ArrowKeys, c \in Cells(overlay) :
                   Current(overlay) = {c} =>
                      keydown(overlay, keyCode).focused =
                         IF Adjacent(overlay, c, keyCode) = c
                         THEN overlay.focused
                         ELSE (overlay.focused \ {c})
                                 \cup {Adjacent(overlay, c, keyCode)}
             /\ LET o == keydown(overlay, 13)
                IN  /\ ~isOverlayVisible(o)
                    /\ o.active = "false"
                    /\ o.calls = overlay.calls + 1
                    /\ o.last = First(Current(overlay))

\* the arrow keys have taken the focus to the second row, and Enter has
\* hidden the overlay and called onSelect with that cell
C19_Witness ==
    /\ overlay.constructed
    /\ ~isOverlayVisible(overlay)
    /\ overlay.active = "false"
    /\ overlay.calls = 1
    /\ overlay.last = <<2, 1>>
    /\ overlay.focused = {<<2, 1>>}

\* // New row every 12 items
claimedRowLength == 12

\* C20: the table populate builds holds one cell for every item of the
\* array, in the order of the array, in rows of 12: every row but the last
\* has 12 cells and the last has at most 12.
C20_PopulateRowsOfTwelve ==
    overlay.constructed =>
       /\ Flatten(overlay.table) = overlay.items
       /\ \A r \in DOMAIN overlay.table :
             /\ Len(overlay.table[r]) <= claimedRowLength
             /\ r < Len(overlay.table)
                   => Len(overlay.table[r]) = claimedRowLength

====
